---- MODULE Spec2Model ----
(***************************************************************************)
(* Model of the Nairobi schools / population pipeline:                     *)
(*   data_wrangling.py            filters, normalizer, aggregate-and-merge  *)
(*   visualize_completion_rates.py  clean_numeric, completion metrics       *)
(* Tables are sequences of rows (records of cells); a cell is a tagged     *)
(* value so that a missing value (NaN) is distinct from every string and   *)
(* every number.                                                           *)
(***************************************************************************)
EXTENDS Integers, Sequences, FiniteSets, TLC

VARIABLES
    pc,            \* position of the run
    school_df,     \* the caller's school table
    pop_df,        \* the caller's population table
    local_df,      \* merge_schools_population's copy with Normalized_Division
    school_stats,  \* the aggregated school table
    merged_df,     \* the value merge_schools_population returns
    metrics_df,    \* the value calculate_completion_metrics returns
    df,            \* argument table of a subset_by_* call
    call,          \* the subset_by_* call made: its name and its argument
    out,           \* the value the subset_by_* call returned
    school_columns, \* the columns of the caller's school table
    pop_columns,   \* the columns of the caller's population table
    raised,        \* the exception that ended the run, "none" while it runs
    per_capita_df  \* the table create_schools_per_capita_charts derives

vars == <<pc, school_df, pop_df, local_df, school_stats, merged_df, metrics_df,
          df, call, out, school_columns, pop_columns, raised, per_capita_df>>

---------------------------------------------------------------------------
(* Bounds of the model *)

MaxSchools == 3
MaxPop == 2
MaxRows == 3
MaxColumnRows == 2

---------------------------------------------------------------------------
(* Cells *)

NaN == [kind |-> "nan", val |-> 0]
Str(s) == [kind |-> "str", val |-> s]
Num(n) == [kind |-> "num", val |-> n]
\* a float that is the quotient a / b of two integers, b # 0
Ratio(a, b) == [kind |-> "ratio", val |-> <<a, b>>]
\* the float a division by zero yields: +inf
Inf == [kind |-> "inf", val |-> 0]

isna(c) == c.kind = "nan"
notna(c) == ~isna(c)

RECURSIVE SeqSum(_)
SeqSum(s) == IF s = <<>> THEN 0 ELSE Head(s) + SeqSum(Tail(s))

\* the values of column col of table t, as a sequence
Column(t, col) == [i \in DOMAIN t |-> t[i][col]]

Range(s) == {s[i] : i \in DOMAIN s}

\* all sequences over S of length at most n
SeqsUpTo(S, n) == UNION {[1..k -> S] : k \in 0..n}

---------------------------------------------------------------------------
(* Division names and their order *)

\* The names the model draws from, in Python's str order (the order groupby
\* and an outer merge sort their keys in).
NameOrder == <<"KIBERA", "KIBRA", "WESTLANDS">>

\* the string cells of S, ascending
SortedKeys(S) == SelectSeq([i \in DOMAIN NameOrder |-> Str(NameOrder[i])],
                           LAMBDA c : c \in S)

\* the list with the alias spelling in place of the canonical one
subcounties_with_alias ==
    << "NAIROBI CITY", "WESTLANDS", "DAGORETTI NORTH", "DAGORETTI SOUTH",
       "LANG'ATA", "KIBERA", "ROYSAMBU", "KASARANI", "RUARAKA",
       "EMBAKASI NORTH", "EMBAKASI CENTRAL", "EMBAKASI EAST", "EMBAKASI WEST",
       "EMBAKASI SOUTH", "MAKADARA", "KAMUKUNJI", "STAREHE", "MATHARE" >>

get_nairobi_subcounties ==
    << "NAIROBI CITY", "WESTLANDS", "DAGORETTI NORTH", "DAGORETTI SOUTH",
       "LANG'ATA", "KIBRA", "ROYSAMBU", "KASARANI", "RUARAKA",
       "EMBAKASI NORTH", "EMBAKASI CENTRAL", "EMBAKASI EAST", "EMBAKASI WEST",
       "EMBAKASI SOUTH", "MAKADARA", "KAMUKUNJI", "STAREHE", "MATHARE" >>

---------------------------------------------------------------------------
(* normalize_division_name *)

name_mapping == (Str("KIBERA") :> Str("KIBRA"))

\* a mapping whose canonical name is itself an alias
name_mapping_chained == (Str("KIBERA") :> Str("KIBRA")) @@ (Str("KIBRA") :> Str("KIBERA"))

normalize_chained(division) ==
    IF division \in DOMAIN name_mapping_chained
    THEN name_mapping_chained[division] ELSE division

\* name_mapping.get(division, division)
normalize_division_name(division) ==
    IF division \in DOMAIN name_mapping THEN name_mapping[division] ELSE division

---------------------------------------------------------------------------
(* merge_schools_population: copy, normalize, aggregate *)

SchoolRow(fid, division, enrol, lat) ==
    [FID |-> fid, Division |-> division, TotalEnrol |-> enrol, Latitude |-> lat]

\* school_df.copy(); school_df['Normalized_Division'] = Division.apply(normalize)
add_normalized_division(school) ==
    [i \in DOMAIN school |->
        [c \in DOMAIN school[i] \cup {"Normalized_Division"} |->
            IF c = "Normalized_Division"
            THEN normalize_division_name(school[i].Division)
            ELSE school[i][c]]]

\* 'count': the number of cells that are not missing
agg_count(cells) == Len(SelectSeq(cells, notna))

\* 'sum': the sum of the cells that are not missing (0 when there is none)
agg_sum(cells) ==
    LET present == SelectSeq(cells, notna)
    IN  SeqSum([i \in DOMAIN present |-> present[i].val])

\* 'mean': the mean of the cells that are not missing, NaN when there is none
agg_mean(cells) ==
    IF agg_count(cells) = 0 THEN NaN ELSE Ratio(agg_sum(cells), agg_count(cells))

\* the rows of one group of groupby('Normalized_Division')
groupby_rows(local, key) ==
    SelectSeq(local, LAMBDA r : r.Normalized_Division = key)

\* one key per row instead of one per group
groupby_keys_per_row(local) ==
    SelectSeq(Column(local, "Normalized_Division"), notna)

\* groupby drops the missing keys and sorts the others
groupby_keys(local) ==
    SortedKeys({c \in Range(Column(local, "Normalized_Division")) : notna(c)})

\* groupby('Normalized_Division').agg({...}).reset_index(), columns renamed
aggregate_by_division(local) ==
    LET keys == groupby_keys(local)
    IN  [k \in DOMAIN keys |->
            LET g == groupby_rows(local, keys[k])
            IN  [Division |-> keys[k],
                 School_Count |-> Num(agg_count(Column(g, "FID"))),
                 Total_Enrollment |-> Num(agg_sum(Column(g, "TotalEnrol"))),
                 Latitude |-> agg_mean(Column(g, "Latitude"))]]

---------------------------------------------------------------------------
(* merge_schools_population: the outer merge with indicator *)

PopRow(name, total, completed) ==
    [County_Sub_County |-> name, Total |-> total, Left_After_Completion |-> completed]

MergedRow(l, r, tag) ==
    [Division |-> l.Division, School_Count |-> l.School_Count,
     Total_Enrollment |-> l.Total_Enrollment, Latitude |-> l.Latitude,
     County_Sub_County |-> r.County_Sub_County, Total |-> r.Total,
     Left_After_Completion |-> r.Left_After_Completion, _merge |-> tag]

\* the all-missing left and right halves of an unmatched row
NoStats == [Division |-> NaN, School_Count |-> NaN, Total_Enrollment |-> NaN,
            Latitude |-> NaN]
NoPop == PopRow(NaN, NaN, NaN)

RECURSIVE Flatten(_)
Flatten(ss) == IF ss = <<>> THEN <<>> ELSE Head(ss) \o Flatten(Tail(ss))

\* the indicator with its two one-sided tags exchanged
rows_of_key_swapped(left, right, key) ==
    LET L == SelectSeq(left, LAMBDA l : l.Division = key)
        R == SelectSeq(right, LAMBDA r : r.County_Sub_County = key)
    IN  IF R = <<>> THEN [i \in DOMAIN L |-> MergedRow(L[i], NoPop, "right_only")]
        ELSE IF L = <<>> THEN [j \in DOMAIN R |-> MergedRow(NoStats, R[j], "left_only")]
        ELSE Flatten([i \in DOMAIN L |->
                        [j \in DOMAIN R |-> MergedRow(L[i], R[j], "both")]])

\* the output rows of one key: every pairing of its left and right rows, or
\* the rows of the one side that has it
rows_of_key(left, right, key) ==
    LET L == SelectSeq(left, LAMBDA l : l.Division = key)
        R == SelectSeq(right, LAMBDA r : r.County_Sub_County = key)
    IN  IF R = <<>> THEN [i \in DOMAIN L |-> MergedRow(L[i], NoPop, "left_only")]
        ELSE IF L = <<>> THEN [j \in DOMAIN R |-> MergedRow(NoStats, R[j], "right_only")]
        ELSE Flatten([i \in DOMAIN L |->
                        [j \in DOMAIN R |-> MergedRow(L[i], R[j], "both")]])

\* an inner join: the keys of one side only are lost
merge_inner(left, right) ==
    LET keys == SortedKeys(Range(Column(left, "Division"))
                           \cap Range(Column(right, "County_Sub_County")))
    IN  Flatten([k \in DOMAIN keys |-> rows_of_key(left, right, keys[k])])

\* a left join: the keys of the population table only are lost
merge_left(left, right) ==
    LET keys == SortedKeys(Range(Column(left, "Division")))
    IN  Flatten([k \in DOMAIN keys |-> rows_of_key(left, right, keys[k])])

\* a join that normalizes the population names too before it matches them
merge_outer_normalizing_both(left, right) ==
    LET renamed == [j \in DOMAIN right |->
                      PopRow(normalize_division_name(right[j].County_Sub_County),
                             right[j].Total, right[j].Left_After_Completion)]
        keys == SortedKeys(Range(Column(left, "Division"))
                           \cup Range(Column(renamed, "County_Sub_County")))
    IN  Flatten([k \in DOMAIN keys |-> rows_of_key(left, renamed, keys[k])])

\* school_stats.merge(pop_df, left_on='Division', right_on=pop_subcounty_col,
\*                    how='outer', indicator=True)
merge_outer(left, right) ==
    LET keys == SortedKeys(Range(Column(left, "Division"))
                           \cup Range(Column(right, "County_Sub_County")))
    IN  Flatten([k \in DOMAIN keys |-> rows_of_key(left, right, keys[k])])

---------------------------------------------------------------------------
(* merge_schools_population as a whole: what it raises, what it returns and
   what it leaves of its two arguments *)

\* the columns of the two files
SchoolColumns == {"FID", "Division", "TotalEnrol", "Latitude"}
PopColumns == {"County_Sub_County", "Total", "Left_After_Completion"}

\* the columns agg({...}) names
AggColumns == {"FID", "TotalEnrol", "Latitude"}

\* the outcome of a call: the exception raised ("none" when it returns), the
\* locals as far as they were computed, the value returned, and the caller's
\* two tables as the call leaves them
Outcome(exc, local, stats, ret, school, scols, pop, pcols) ==
    [raised |-> exc, local_df |-> local, school_stats |-> stats, ret |-> ret,
     school_df |-> school, school_columns |-> scols,
     pop_df |-> pop, pop_columns |-> pcols]

\* a call that answers a missing column with an empty table
merge_schools_population_swallow(school, scols, pop, pcols) ==
    IF "Division" \in scols /\ AggColumns \subseteq scols
          /\ "County_Sub_County" \in pcols
    THEN LET local == add_normalized_division(school)
             stats == aggregate_by_division(local)
         IN  Outcome("none", local, stats, merge_outer(stats, pop),
                     school, scols, pop, pcols)
    ELSE Outcome("none", <<>>, <<>>, <<>>, school, scols, pop, pcols)

\* a call that raises when a key is on one side only
merge_schools_population_strict(school, scols, pop, pcols) ==
    LET local == add_normalized_division(school)
        stats == aggregate_by_division(local)
        joined == merge_outer(stats, pop)
    IN  IF \E j \in DOMAIN joined : joined[j]._merge # "both"
        THEN Outcome("MergeError", local, stats, <<>>, school, scols, pop, pcols)
        ELSE Outcome("none", local, stats, joined, school, scols, pop, pcols)

\* a call that works on the caller's table, not on a copy of it
merge_schools_population_nocopy(school, scols, pop, pcols) ==
    IF "Division" \notin scols
    THEN Outcome("KeyError", <<>>, <<>>, <<>>, school, scols, pop, pcols)
    ELSE LET local == add_normalized_division(school)
             lcols == scols \cup {"Normalized_Division"}
         IN  IF ~(AggColumns \subseteq scols)
             THEN Outcome("KeyError", local, <<>>, <<>>, local, lcols, pop, pcols)
             ELSE LET stats == aggregate_by_division(local)
                  IN  IF "County_Sub_County" \notin pcols
                      THEN Outcome("KeyError", local, stats, <<>>,
                                   local, lcols, pop, pcols)
                      ELSE Outcome("none", local, stats, merge_outer(stats, pop),
                                   local, lcols, pop, pcols)

\* merge_schools_population(school_df, pop_df)
merge_schools_population(school, scols, pop, pcols) ==
    IF "Division" \notin scols
    THEN Outcome("KeyError", <<>>, <<>>, <<>>, school, scols, pop, pcols)
    ELSE LET local == add_normalized_division(school)
         IN  IF ~(AggColumns \subseteq scols)
             THEN Outcome("KeyError", local, <<>>, <<>>, school, scols, pop, pcols)
             ELSE LET stats == aggregate_by_division(local)
                  IN  IF "County_Sub_County" \notin pcols
                      THEN Outcome("KeyError", local, stats, <<>>,
                                   school, scols, pop, pcols)
                      ELSE Outcome("none", local, stats, merge_outer(stats, pop),
                                   school, scols, pop, pcols)

---------------------------------------------------------------------------
(* Numbers as text: the population file writes counts with thousands
   separators; load_csv_data and clean_numeric read them back *)

DigitChars == <<"0", "1", "2", "3", "4", "5", "6", "7", "8", "9">>

IsDigit(ch) == ch \in Range(DigitChars)

DigitValue(ch) == (CHOOSE d \in DOMAIN DigitChars : DigitChars[d] = ch) - 1

RECURSIVE Digits(_)
Digits(n) == IF n < 10 THEN <<DigitChars[n + 1]>>
             ELSE Digits(n \div 10) \o <<DigitChars[(n % 10) + 1]>>

\* three digits, zero padded
Digits3(n) == <<DigitChars[(n \div 100) + 1], DigitChars[((n \div 10) % 10) + 1],
                DigitChars[(n % 10) + 1]>>

\* the text of n with a comma between groups of three digits: 10000 -> "10,000"
RECURSIVE Grouped(_)
Grouped(n) == IF n < 1000 THEN Digits(n)
              ELSE Grouped(n \div 1000) \o <<",">> \o Digits3(n % 1000)

\* float(text) for a text of digits: its decimal value
RECURSIVE DecimalValue(_)
DecimalValue(text) ==
    IF text = <<>> THEN 0
    ELSE 10 * DecimalValue(SubSeq(text, 1, Len(text) - 1)) + DigitValue(text[Len(text)])

IsDigits(text) == text # <<>> /\ \A i \in DOMAIN text : IsDigit(text[i])

\* pd.read_csv types a column by its cells: a column whose cells are all
\* digits is numeric, any other column keeps its cells as strings
read_column(texts) ==
    IF \A i \in DOMAIN texts : IsDigits(texts[i])
    THEN [i \in DOMAIN texts |-> Num(DecimalValue(texts[i]))]
    ELSE [i \in DOMAIN texts |-> Str(texts[i])]

\* load_csv_data on a population file, one line per row: name, total, completed
load_csv_data(lines) ==
    LET total == read_column([i \in DOMAIN lines |-> lines[i][2]])
        completed == read_column([i \in DOMAIN lines |-> lines[i][3]])
    IN  [i \in DOMAIN lines |-> PopRow(Str(lines[i][1]), total[i], completed[i])]

\* series.dtype: 'object' for a column that holds strings
dtype(series) ==
    IF \E i \in DOMAIN series : series[i].kind = "str" THEN "object" ELSE "float64"

\* a parse that stops at the first separator: "10,000" -> 10
leading_digits(text) ==
    IF \E i \in DOMAIN text : text[i] = ","
    THEN SubSeq(text, 1, (CHOOSE i \in DOMAIN text :
                             text[i] = "," /\ \A j \in 1..(i - 1) : text[j] # ",") - 1)
    ELSE text

clean_numeric_to_comma(series) ==
    IF dtype(series) = "object"
    THEN [i \in DOMAIN series |->
            IF isna(series[i]) THEN NaN
            ELSE Num(DecimalValue(leading_digits(series[i].val)))]
    ELSE series

\* series.str.replace(',', '').astype(float) if series.dtype == 'object' else series
clean_numeric(series) ==
    IF dtype(series) = "object"
    THEN [i \in DOMAIN series |->
            IF isna(series[i]) THEN NaN
            ELSE Num(DecimalValue(SelectSeq(series[i].val, LAMBDA ch : ch # ",")))]
    ELSE series

\* a division guarded against a zero denominator: 0 in its place
float_div_guarded(a, b) ==
    IF isna(a) \/ isna(b) THEN NaN
    ELSE IF b.val = 0 THEN Num(0)
    ELSE Ratio(a.val, b.val)

\* a / b on floats: NaN propagates, x / 0 is inf and 0 / 0 is NaN
float_div(a, b) ==
    IF isna(a) \/ isna(b) THEN NaN
    ELSE IF b.val = 0 THEN (IF a.val = 0 THEN NaN ELSE Inf)
    ELSE Ratio(a.val, b.val)

\* x * k on floats
float_mul(x, k) ==
    IF x.kind = "ratio" THEN Ratio(x.val[1] * k, x.val[2]) ELSE x

\* calculate_completion_metrics
calculate_completion_metrics(merged) ==
    LET d == SelectSeq(merged, LAMBDA r : r._merge = "both")
        total == clean_numeric(Column(d, "Total"))
        completed == clean_numeric(Column(d, "Left_After_Completion"))
    IN  [i \in DOMAIN d |->
            [Division |-> d[i].Division, School_Count |-> d[i].School_Count,
             Total_Enrollment |-> d[i].Total_Enrollment, Latitude |-> d[i].Latitude,
             County_Sub_County |-> d[i].County_Sub_County,
             Total |-> total[i], Left_After_Completion |-> completed[i],
             _merge |-> d[i]._merge,
             Completed_Rate |-> float_mul(float_div(completed[i], total[i]), 100)]]

\* create_schools_per_capita_charts, the derived columns: a copy of the table
\* with Total_Pop, Schools_per_10k and Students_per_School added and
\* Completed_Rate computed again
derive_per_capita(metrics) ==
    LET total_pop == clean_numeric(Column(metrics, "Total"))
        completed == clean_numeric(Column(metrics, "Left_After_Completion"))
        derived(i) ==
            [Total_Pop |-> total_pop[i],
             Schools_per_10k |->
                float_mul(float_div(metrics[i].School_Count, total_pop[i]), 10000),
             Students_per_School |->
                float_div(metrics[i].Total_Enrollment, metrics[i].School_Count),
             Completed_Rate |-> float_mul(float_div(completed[i], total_pop[i]), 100)]
    IN  [i \in DOMAIN metrics |->
            [c \in DOMAIN metrics[i] \cup DOMAIN derived(i) |->
                IF c \in DOMAIN derived(i) THEN derived(i)[c] ELSE metrics[i][c]]]

---------------------------------------------------------------------------
(* subset_by_province, subset_by_level, subset_by_subcounties.
   Each yields the value returned (ret) and the argument table as the call
   leaves it (df). *)

\* a filter that drops the rows from the argument table itself
subset_by_province_inplace(d, province) ==
    LET kept == SelectSeq(d, LAMBDA r : r.Province = Str(province))
    IN  [ret |-> kept, df |-> kept]

\* df[df[province_col] == province]
subset_by_province(d, province) ==
    [ret |-> SelectSeq(d, LAMBDA r : r.Province = Str(province)), df |-> d]

\* df[df[level_col] == level]
subset_by_level(d, level) ==
    [ret |-> SelectSeq(d, LAMBDA r : r.Level_ = Str(level)), df |-> d]

\* df[df[subcounty_col].isin(subcounties)]
subset_by_subcounties(d, subcounties) ==
    [ret |-> SelectSeq(d, LAMBDA r :
                r.County_Sub_County \in {Str(x) : x \in Range(subcounties)}),
     df |-> d]

---------------------------------------------------------------------------
(* Inputs *)

\* a school table: row i is institution i; its FID and its Division may be
\* missing
DivisionCells == {Str("KIBERA"), Str("KIBRA"), Str("WESTLANDS"), NaN}

SchoolTables(n) ==
    { [i \in DOMAIN t |->
          SchoolRow(IF t[i][2] THEN Num(i) ELSE NaN, t[i][1], Num(100 * i), Num(-i))]
      : t \in SeqsUpTo(DivisionCells \X BOOLEAN, n) }

\* the lines of a population file: name, total population, completed count
PopNames == {"KIBERA", "KIBRA", "WESTLANDS"}

PopLines(counts) ==
    {<<name, Grouped(c[1]), Grouped(c[2])>> : name \in PopNames, c \in counts}

PopTables(counts, n) == {load_csv_data(f) : f \in SeqsUpTo(PopLines(counts), n)}

\* <<total population, completed>> of the population rows
MergeCounts == {<<10000, 4500>>}
MetricCounts == {<<10000, 1500>>, <<800, 300>>, <<1234567, 8>>, <<0, 0>>, <<0, 8>>}

\* the school tables of the runs that vary the population counts
MetricSchools ==
    { <<>>,
      <<SchoolRow(Num(1), Str("KIBERA"), Num(100), Num(-1))>>,
      <<SchoolRow(Num(1), Str("KIBERA"), Num(100), Num(-1)),
        SchoolRow(Num(2), Str("WESTLANDS"), Num(200), Num(-2))>>,
      <<SchoolRow(NaN, Str("KIBRA"), Num(100), Num(-1)),
        SchoolRow(Num(2), Str("WESTLANDS"), Num(200), Num(-2))>> }

\* a table the subset functions are called on
Provinces == {Str("NAIROBI"), Str("COAST"), NaN}
Levels == {Str("PRIMARY SCHOOL"), Str("SECONDARY SCHOOL")}
Subcounties == {Str("KIBRA"), Str("KIBERA")}

SubsetTables(n) ==
    { [i \in DOMAIN t |->
          [FID |-> Num(i), Province |-> t[i][1], Level_ |-> t[i][2],
           County_Sub_County |-> t[i][3]]]
      : t \in SeqsUpTo(Provinces \X Levels \X Subcounties, n) }

\* the lists subset_by_subcounties is called with
SubcountyLists == {get_nairobi_subcounties, <<"KIBERA">>, <<>>}

---------------------------------------------------------------------------
(* Actions *)

NoCall == [fn |-> "none", arg |-> <<>>, before |-> <<>>]

\* table t without the columns that are not in cols
Project(t, cols) == [i \in DOMAIN t |-> [c \in cols |-> t[i][c]]]

\* the column sets of a school table and of a population table that lack
\* at most one column
SchoolColumnSets ==
    {SchoolColumns, SchoolColumns \ {"Division"}, SchoolColumns \ {"FID"}}
PopColumnSets == {PopColumns, PopColumns \ {"County_Sub_County"}}

InitWith(schools, pops) ==
    /\ pc = "start"
    /\ school_df \in schools
    /\ pop_df \in pops
    /\ school_columns = SchoolColumns
    /\ pop_columns = PopColumns
    /\ raised = "none"
    /\ per_capita_df = <<>>
    /\ local_df = <<>>
    /\ school_stats = <<>>
    /\ merged_df = <<>>
    /\ metrics_df = <<>>
    /\ df = <<>>
    /\ call = NoCall
    /\ out = <<>>

Init == InitWith(SchoolTables(MaxSchools), PopTables(MergeCounts, MaxPop))

InitMetrics == InitWith(MetricSchools, PopTables(MetricCounts, MaxPop))

\* tables of which a column may be missing
InitColumns ==
    /\ pc = "start"
    /\ school_columns \in SchoolColumnSets
    /\ pop_columns \in PopColumnSets
    /\ \E t \in SchoolTables(MaxColumnRows) : school_df = Project(t, school_columns)
    /\ \E t \in PopTables(MergeCounts, MaxColumnRows) : pop_df = Project(t, pop_columns)
    /\ local_df = <<>>
    /\ school_stats = <<>>
    /\ merged_df = <<>>
    /\ metrics_df = <<>>
    /\ df = <<>>
    /\ call = NoCall
    /\ out = <<>>
    /\ raised = "none"
    /\ per_capita_df = <<>>

InitSubset ==
    /\ pc = "subset"
    /\ school_columns = SchoolColumns
    /\ pop_columns = PopColumns
    /\ raised = "none"
    /\ per_capita_df = <<>>
    /\ df \in SubsetTables(MaxRows)
    /\ call = NoCall
    /\ out = <<>>
    /\ school_df = <<>>
    /\ pop_df = <<>>
    /\ local_df = <<>>
    /\ school_stats = <<>>
    /\ merged_df = <<>>
    /\ metrics_df = <<>>

\* merge_schools_population(school_df, pop_df)
MergeSchoolsPopulation ==
    /\ pc = "start"
    /\ \E res \in {merge_schools_population(school_df, school_columns,
                                              pop_df, pop_columns)} :
           /\ raised' = res.raised
           /\ local_df' = res.local_df
           /\ school_stats' = res.school_stats
           /\ merged_df' = res.ret
           /\ school_df' = res.school_df
           /\ school_columns' = res.school_columns
           /\ pop_df' = res.pop_df
           /\ pop_columns' = res.pop_columns
           /\ pc' = IF res.raised = "none" THEN "merged" ELSE "failed"
    /\ UNCHANGED <<metrics_df, per_capita_df, df, call, out>>

\* metrics_df = calculate_completion_metrics(merged_data)
CalculateCompletionMetrics ==
    /\ pc = "merged"
    /\ metrics_df' = calculate_completion_metrics(merged_df)
    /\ pc' = "metrics"
    /\ UNCHANGED <<school_df, pop_df, local_df, school_stats, merged_df, df, call, out,
                   school_columns, pop_columns, raised, per_capita_df>>

\* create_schools_per_capita_charts(metrics_df), up to the derived columns
DerivePerCapita ==
    /\ pc = "metrics"
    /\ per_capita_df' = derive_per_capita(metrics_df)
    /\ pc' = "per_capita"
    /\ UNCHANGED <<school_df, pop_df, local_df, school_stats, merged_df, metrics_df,
                   df, call, out, school_columns, pop_columns, raised>>

Returned(fn, arg, res) ==
    /\ call' = [fn |-> fn, arg |-> arg, before |-> df]
    /\ out' = res.ret
    /\ df' = res.df
    /\ pc' = "subset_done"
    /\ UNCHANGED <<school_df, pop_df, local_df, school_stats, merged_df, metrics_df,
                   school_columns, pop_columns, raised, per_capita_df>>

SubsetByProvince ==
    /\ pc = "subset"
    /\ \E province \in {"NAIROBI", "COAST"} :
          Returned("subset_by_province", province, subset_by_province(df, province))

SubsetByLevel ==
    /\ pc = "subset"
    /\ \E level \in {"PRIMARY SCHOOL", "SECONDARY SCHOOL"} :
          Returned("subset_by_level", level, subset_by_level(df, level))

SubsetBySubcounties ==
    /\ pc = "subset"
    /\ \E subcounties \in SubcountyLists :
          Returned("subset_by_subcounties", subcounties,
                   subset_by_subcounties(df, subcounties))

Next == MergeSchoolsPopulation \/ CalculateCompletionMetrics

NextSubset == SubsetByProvince \/ SubsetByLevel \/ SubsetBySubcounties

Spec == Init /\ [][Next]_vars

NextMetrics == Next \/ DerivePerCapita

SpecMetrics == InitMetrics /\ [][NextMetrics]_vars

SpecSubset == InitSubset /\ [][NextSubset]_vars

SpecColumns == InitColumns /\ [][Next]_vars

---------------------------------------------------------------------------
(* Properties of the aggregate-and-merge step *)

Merged == pc \in {"merged", "metrics", "per_capita"}

\* the rows of table t whose column col holds cell c
RowsWith(t, col, c) == {i \in DOMAIN t : t[i][col] = c}

\* the canonical spelling of a division cell, as the data model states it
Canonical(c) == IF c = Str("KIBERA") THEN Str("KIBRA") ELSE c

\* C1 as stated: once the merge has run, if the school table has rows spelled
\* "KIBERA" and the population table has a row named "KIBRA", then exactly one
\* merged row has Division "KIBRA", it is tagged 'both' and its School_Count is
\* the number of the "KIBERA" school rows; likewise for "WESTLANDS" on both
\* sides.
C1_OneMatchedRowPerSpelling ==
    Merged =>
      \A pair \in {<<Str("KIBERA"), Str("KIBRA")>>, <<Str("WESTLANDS"), Str("WESTLANDS")>>} :
        (RowsWith(school_df, "Division", pair[1]) # {}
            /\ RowsWith(pop_df, "County_Sub_County", pair[2]) # {})
        => /\ Cardinality(RowsWith(merged_df, "Division", pair[2])) = 1
           /\ \A j \in RowsWith(merged_df, "Division", pair[2]) :
                /\ merged_df[j]._merge = "both"
                /\ merged_df[j].School_Count =
                     Num(Cardinality(RowsWith(school_df, "Division", pair[1])))

\* What the code does in the case of C1: once the merge has run, for each
\* canonical key ("KIBRA", "WESTLANDS") that some school row's Division maps
\* to and some population row is named, the merged rows with that Division
\* are one per population row of that name, each tagged 'both', each with
\* School_Count the number of school rows whose Division is a spelling of the
\* key ("KIBERA" or "KIBRA" for "KIBRA") and whose FID is present.
MatchedRowsPerCanonicalKey ==
    Merged =>
      \A key \in {Str("KIBRA"), Str("WESTLANDS")} :
        LET spelled == {i \in DOMAIN school_df : Canonical(school_df[i].Division) = key}
            named == RowsWith(pop_df, "County_Sub_County", key)
            rows == RowsWith(merged_df, "Division", key)
        IN  (spelled # {} /\ named # {})
            => /\ Cardinality(rows) = Cardinality(named)
               /\ \A j \in rows :
                    /\ merged_df[j]._merge = "both"
                    /\ merged_df[j].County_Sub_County = key
                    /\ merged_df[j].School_Count =
                         Num(Cardinality({i \in spelled : notna(school_df[i].FID)}))

\* strings the normalizer is tried on, beside the divisions of the tables
TestNames == {"KIBERA", "KIBRA", "WESTLANDS", "kibera", "Kibera", " KIBERA",
              "KIBERA ", "", "NAIROBI CITY"}

\* C2: normalize_division_name applied twice gives what it gives applied
\* once, a name that is not the alias "KIBERA" is mapped to itself, and every
\* string is mapped to a string; this holds of every test string and of every
\* Division the merge normalized.
C2_NormalizeIdempotent ==
    /\ \A x \in TestNames :
          LET y == normalize_division_name(Str(x))
          IN  /\ y.kind = "str"
              /\ normalize_division_name(y) = y
              /\ (x # "KIBERA" => y = Str(x))
    /\ Merged =>
          \A i \in DOMAIN local_df :
             LET y == local_df[i].Normalized_Division
             IN  /\ normalize_division_name(y) = y
                 /\ (school_df[i].Division # Str("KIBERA") => y = school_df[i].Division)

\* C2's case: the merge normalized an alias and a canonical spelling
C2_Witness ==
    /\ pc = "merged"
    /\ \E i, j \in DOMAIN local_df :
          /\ school_df[i].Division = Str("KIBERA")
          /\ local_df[i].Normalized_Division = Str("KIBRA")
          /\ school_df[j].Division = Str("KIBRA")
          /\ local_df[j].Normalized_Division = Str("KIBRA")

\* C3 as stated: once the aggregation has run, the School_Count of the
\* aggregated rows sum to the number of rows of the school table.
C3_CountsSumToRows ==
    Merged =>
      SeqSum([k \in DOMAIN school_stats |-> school_stats[k].School_Count.val])
        = Len(school_df)

\* What the code does in the case of C3: the School_Count sum to the number of
\* school rows whose Division and FID are both present.
CountsSumToPresentRows ==
    Merged =>
      SeqSum([k \in DOMAIN school_stats |-> school_stats[k].School_Count.val])
        = Cardinality({i \in DOMAIN school_df :
                          notna(school_df[i].Division) /\ notna(school_df[i].FID)})

\* C4: once the aggregation has run, no two aggregated rows have the same
\* Division, and the Divisions of the aggregated rows are exactly the
\* canonical spellings of the Divisions present in the school table.
C4_OneRowPerDivision ==
    Merged =>
      /\ \A i, j \in DOMAIN school_stats :
            school_stats[i].Division = school_stats[j].Division => i = j
      /\ {school_stats[k].Division : k \in DOMAIN school_stats}
           = {Canonical(school_df[i].Division) :
                 i \in {n \in DOMAIN school_df : notna(school_df[n].Division)}}

\* C4's case: rows spelled "KIBERA" and rows spelled "KIBRA" beside another
\* division
C4_Witness ==
    /\ pc = "merged"
    /\ RowsWith(school_df, "Division", Str("KIBERA")) # {}
    /\ RowsWith(school_df, "Division", Str("KIBRA")) # {}
    /\ RowsWith(school_df, "Division", Str("WESTLANDS")) # {}
    /\ Len(school_stats) = 2

\* the school-statistics half and the population half of a merged row
StatsOf(m) == [Division |-> m.Division, School_Count |-> m.School_Count,
               Total_Enrollment |-> m.Total_Enrollment, Latitude |-> m.Latitude]
PopOf(m) == PopRow(m.County_Sub_County, m.Total, m.Left_After_Completion)

PopNamed(c) == RowsWith(pop_df, "County_Sub_County", c)
StatsNamed(c) == RowsWith(school_stats, "Division", c)

\* C5: once the merge has run, every aggregated school row and every
\* population row is the half of some merged row; an aggregated row whose
\* Division names no population row appears with every population column
\* missing, and a population row whose name is no aggregated Division appears
\* with every school-statistics column missing.
C5_FullOuterJoin ==
    Merged =>
      /\ \A i \in DOMAIN school_stats :
            /\ \E j \in DOMAIN merged_df : StatsOf(merged_df[j]) = school_stats[i]
            /\ PopNamed(school_stats[i].Division) = {} =>
                  \E j \in DOMAIN merged_df :
                     /\ StatsOf(merged_df[j]) = school_stats[i]
                     /\ PopOf(merged_df[j]) = PopRow(NaN, NaN, NaN)
      /\ \A i \in DOMAIN pop_df :
            /\ \E j \in DOMAIN merged_df : PopOf(merged_df[j]) = pop_df[i]
            /\ StatsNamed(pop_df[i].County_Sub_County) = {} =>
                  \E j \in DOMAIN merged_df :
                     /\ PopOf(merged_df[j]) = pop_df[i]
                     /\ \A col \in {"Division", "School_Count", "Total_Enrollment",
                                    "Latitude"} : isna(merged_df[j][col])

\* C5's case: a division with schools and no population row beside a
\* population row with no schools
C5_Witness ==
    /\ pc = "merged"
    /\ \E i \in DOMAIN school_stats : PopNamed(school_stats[i].Division) = {}
    /\ \E i \in DOMAIN pop_df : StatsNamed(pop_df[i].County_Sub_County) = {}
    /\ Len(merged_df) = Len(school_stats) + Len(pop_df)

\* the join key of a merged row: its Division, or its subcounty name when the
\* school side is missing
KeyOf(m) == IF notna(m.Division) THEN m.Division ELSE m.County_Sub_County

\* C6: once the merge has run, every merged row carries one of the three
\* tags; it is 'both' exactly when its key is an aggregated Division and a
\* population name, 'left_only' exactly when it is an aggregated Division
\* only, 'right_only' exactly when it is a population name only.
C6_ProvenancePartition ==
    Merged =>
      \A j \in DOMAIN merged_df :
         LET m == merged_df[j]
             inLeft == StatsNamed(KeyOf(m)) # {}
             inRight == PopNamed(KeyOf(m)) # {}
         IN  /\ m._merge \in {"both", "left_only", "right_only"}
             /\ (m._merge = "both") <=> (inLeft /\ inRight)
             /\ (m._merge = "left_only") <=> (inLeft /\ ~inRight)
             /\ (m._merge = "right_only") <=> (~inLeft /\ inRight)

\* C6's case: the three tags in one merged table
C6_Witness ==
    /\ pc = "merged"
    /\ \A tag \in {"both", "left_only", "right_only"} :
          \E j \in DOMAIN merged_df : merged_df[j]._merge = tag

Max(a, b) == IF a >= b THEN a ELSE b

\* C7: once the merge has run, the number of merged rows is at least the
\* larger of the number of aggregated rows and the number of population rows
\* and at most their sum.
C7_OuterJoinBound ==
    Merged =>
      /\ Max(Len(school_stats), Len(pop_df)) <= Len(merged_df)
      /\ Len(merged_df) <= Len(school_stats) + Len(pop_df)

\* C7's case: two population rows of one name, matched by a school division
C7_Witness ==
    /\ pc = "merged"
    /\ \E i, j \in DOMAIN pop_df :
          /\ i # j
          /\ pop_df[i].County_Sub_County = pop_df[j].County_Sub_County
          /\ StatsNamed(pop_df[i].County_Sub_County) # {}
    /\ Len(school_stats) = 2

---------------------------------------------------------------------------
(* Properties of the subset functions *)

\* the predicate of the call made, on a row of its argument table
Selected(r) ==
    CASE call.fn = "subset_by_province" -> r.Province = Str(call.arg)
      [] call.fn = "subset_by_level" -> r.Level_ = Str(call.arg)
      [] call.fn = "subset_by_subcounties" ->
            \E k \in DOMAIN call.arg : r.County_Sub_County = Str(call.arg[k])

\* C8: when a subset function has returned, the table it returned holds the
\* rows of its argument that satisfy the predicate, each once and in their
\* original order, and the argument table is as it was before the call.
C8_SubsetExactAndPure ==
    pc = "subset_done" =>
      LET keep == {i \in DOMAIN call.before : Selected(call.before[i])}
      IN  /\ df = call.before
          /\ Len(out) = Cardinality(keep)
          /\ \A i \in keep : out[Cardinality({k \in keep : k <= i})] = call.before[i]

\* C8's case: a call that dropped a row and kept a later one
C8_Witness ==
    /\ pc = "subset_done"
    /\ \E i, j \in DOMAIN call.before :
          /\ i < j
          /\ ~Selected(call.before[i])
          /\ Selected(call.before[j])
    /\ Len(out) = 2

\* C9: get_nairobi_subcounties lists 18 names, no two alike, each mapped to
\* itself by normalize_division_name, so their normalized forms are 18; the
\* rows a run keeps through that list have names the normalizer leaves alone.
C9_SubcountiesCanonical ==
    LET names == get_nairobi_subcounties
    IN  /\ Len(names) = 18
        /\ \A i, j \in DOMAIN names : names[i] = names[j] => i = j
        /\ \A i \in DOMAIN names : normalize_division_name(Str(names[i])) = Str(names[i])
        /\ Cardinality({normalize_division_name(Str(names[i])) : i \in DOMAIN names}) = 18
        /\ (pc = "subset_done" /\ call.fn = "subset_by_subcounties"
              /\ Len(call.arg) = 18) =>
              \A i \in DOMAIN out :
                 normalize_division_name(out[i].County_Sub_County)
                    = out[i].County_Sub_County

\* C9's case: the population table filtered through the list, a row named
\* with the alias dropped and a canonical one kept
C9_Witness ==
    /\ pc = "subset_done"
    /\ call.fn = "subset_by_subcounties"
    /\ call.arg = get_nairobi_subcounties
    /\ \E i \in DOMAIN call.before : call.before[i].County_Sub_County = Str("KIBERA")
    /\ \E i \in DOMAIN out : out[i].County_Sub_County = Str("KIBRA")

---------------------------------------------------------------------------
(* Properties of calculate_completion_metrics *)

\* the counts the population file may hold
CountValues == UNION {{c[1], c[2]} : c \in MetricCounts \cup MergeCounts}

\* cell c is the count n: as a number, or as its text with separators
Holds(c, n) == c \in {Num(n), Str(Grouped(n))}

BothRows == {j \in DOMAIN merged_df : merged_df[j]._merge = "both"}

\* C10: when calculate_completion_metrics has returned, its rows are the
\* merged rows tagged 'both', each once and in order, and the Completed_Rate
\* of each is completed / total * 100 for the counts its two cells held
\* (not a number for 0 / 0).
C10_CompletionRate ==
    pc = "metrics" =>
      /\ Len(metrics_df) = Cardinality(BothRows)
      /\ \A j \in BothRows :
            LET m == merged_df[j]
                r == metrics_df[Cardinality({k \in BothRows : k <= j})]
            IN  /\ r._merge = "both"
                /\ StatsOf(r) = StatsOf(m)
                /\ r.County_Sub_County = m.County_Sub_County
                /\ \E total, completed \in CountValues :
                      Holds(m.Total, total) /\ Holds(m.Left_After_Completion, completed)
                /\ \A total, completed \in CountValues :
                      (Holds(m.Total, total) /\ Holds(m.Left_After_Completion, completed))
                      => IF total = 0
                         THEN r.Completed_Rate.kind = (IF completed = 0 THEN "nan" ELSE "inf")
                         ELSE /\ r.Completed_Rate.kind = "ratio"
                              /\ r.Completed_Rate.val[1] * total
                                    = 100 * completed * r.Completed_Rate.val[2]

\* C10's case: a matched row whose counts were text with separators, beside
\* a school-only row that was dropped
C10_Witness ==
    /\ pc = "metrics"
    /\ \E j \in DOMAIN merged_df : merged_df[j]._merge = "left_only"
    /\ \E j \in BothRows :
          /\ merged_df[j].Total = Str(Grouped(1234567))
          /\ merged_df[j].Left_After_Completion = Str(Grouped(8))
    /\ \E i \in DOMAIN metrics_df :
          /\ metrics_df[i].Total = Num(1234567)
          /\ metrics_df[i].Completed_Rate = Ratio(800, 1234567)

---------------------------------------------------------------------------
(* Properties of the failures of merge_schools_population *)

\* a column the merge needs is missing from one of the caller's tables
RequiredColumnMissing ==
    \/ "Division" \notin school_columns
    \/ "FID" \notin school_columns
    \/ "County_Sub_County" \notin pop_columns

\* C11: when the school table lacks Division or FID, or the population table
\* lacks the subcounty column, the call of merge_schools_population ends the
\* run with a KeyError: no merged table is returned, no metric is derived,
\* and no step of the run follows the failure.
C11_MissingColumnRaises ==
    /\ (RequiredColumnMissing /\ pc # "start") =>
          /\ pc = "failed"
          /\ raised = "KeyError"
          /\ merged_df = <<>>
          /\ metrics_df = <<>>
          /\ per_capita_df = <<>>
    /\ pc = "failed" => ~ENABLED Next

\* C11's case: a non-empty school table without FID, which fails in the
\* aggregation after its Division was normalized
C11_Witness ==
    /\ pc = "failed"
    /\ raised = "KeyError"
    /\ "FID" \notin school_columns
    /\ school_df # <<>>
    /\ local_df # <<>>
    /\ pop_df # <<>>

\* the keys the school side of the join has, and those the population side has
SchoolKeys == {Canonical(school_df[i].Division) :
                  i \in {n \in DOMAIN school_df : notna(school_df[n].Division)}}
PopKeys == {pop_df[i].County_Sub_County : i \in DOMAIN pop_df}

\* the keys that one side only has
OneSidedKeys == (SchoolKeys \ PopKeys) \cup (PopKeys \ SchoolKeys)

\* C12 as stated: once merge_schools_population was called on tables with a
\* division key that one side only has, the run has failed with the merge's
\* exception.
C12_UnmatchedKeyFails ==
    (pc # "start" /\ OneSidedKeys # {}) => (pc = "failed" /\ raised # "none")

\* C12 amended: a division key that one side only has does not make the run
\* fail: merge_schools_population returns, the key has a merged row tagged
\* 'left_only' (schools only) or 'right_only' (population only) with the
\* other side's columns missing, and the run goes on.
C12_UnmatchedKeyKept ==
    (pc # "start" /\ OneSidedKeys # {}) =>
       /\ pc # "failed"
       /\ raised = "none"
       /\ \A key \in SchoolKeys \ PopKeys :
             \E j \in DOMAIN merged_df :
                /\ merged_df[j].Division = key
                /\ merged_df[j]._merge = "left_only"
                /\ PopOf(merged_df[j]) = PopRow(NaN, NaN, NaN)
       /\ \A key \in PopKeys \ SchoolKeys :
             \E j \in DOMAIN merged_df :
                /\ merged_df[j].County_Sub_County = key
                /\ merged_df[j]._merge = "right_only"
                /\ isna(merged_df[j].Division)
                /\ isna(merged_df[j].School_Count)

\* C12's case: keys of one side only on both sides, and the run went on to
\* the metrics
C12_Witness ==
    /\ pc = "metrics"
    /\ raised = "none"
    /\ SchoolKeys \ PopKeys # {}
    /\ PopKeys \ SchoolKeys # {}
    /\ metrics_df # <<>>

\* C14: once the merge has run, every population row named "KIBERA" is in a
\* merged row tagged 'right_only' and no row of that name has another tag;
\* if the school table has rows spelled "KIBERA", the merged table has rows
\* with Division "KIBRA", and they are tagged 'left_only' when no population
\* row is named "KIBRA" and 'both' when one is.
C14_PopulationNamesJoinedRaw ==
    Merged =>
      /\ \A i \in PopNamed(Str("KIBERA")) :
            \E j \in DOMAIN merged_df :
               PopOf(merged_df[j]) = pop_df[i] /\ merged_df[j]._merge = "right_only"
      /\ \A j \in DOMAIN merged_df :
            merged_df[j].County_Sub_County = Str("KIBERA") =>
               /\ merged_df[j]._merge = "right_only"
               /\ isna(merged_df[j].Division)
      /\ RowsWith(school_df, "Division", Str("KIBERA")) # {} =>
            /\ RowsWith(merged_df, "Division", Str("KIBRA")) # {}
            /\ \A j \in RowsWith(merged_df, "Division", Str("KIBRA")) :
                  merged_df[j]._merge =
                     (IF PopNamed(Str("KIBRA")) = {} THEN "left_only" ELSE "both")

\* C14's case: "KIBERA" on both sides and no population row named "KIBRA"
C14_Witness ==
    /\ pc = "merged"
    /\ RowsWith(school_df, "Division", Str("KIBERA")) # {}
    /\ PopNamed(Str("KIBERA")) # {}
    /\ PopNamed(Str("KIBRA")) = {}
    /\ \E j \in DOMAIN merged_df :
          merged_df[j].Division = Str("KIBRA") /\ merged_df[j]._merge = "left_only"
    /\ \E j \in DOMAIN merged_df :
          merged_df[j].County_Sub_County = Str("KIBERA")
             /\ merged_df[j]._merge = "right_only"

\* C15: the step that calls merge_schools_population leaves the caller's
\* school table and population table as they were, rows and columns, whether
\* it returns or raises; no 'Normalized_Division' column is among the
\* caller's columns after it.
C15_CallerTablesUnchanged ==
    [][pc = "start" =>
          /\ school_df' = school_df
          /\ school_columns' = school_columns
          /\ pop_df' = pop_df
          /\ pop_columns' = pop_columns
          /\ "Normalized_Division" \notin school_columns'
          /\ \A i \in DOMAIN school_df' : "Normalized_Division" \notin DOMAIN school_df'[i]]_vars

\* C15's case: the call returned, its copy holds a normalized "KIBERA", and
\* the caller's row is as it was
C15_Witness ==
    /\ pc = "merged"
    /\ \E i \in DOMAIN school_df :
          /\ school_df[i].Division = Str("KIBERA")
          /\ local_df[i].Normalized_Division = Str("KIBRA")
          /\ "Normalized_Division" \notin DOMAIN school_df[i]
    /\ "Normalized_Division" \notin school_columns
    /\ pop_df # <<>>

---------------------------------------------------------------------------
(* Properties of the derived metrics on a zero denominator *)

\* the float a / b * k for counts a and b: undefined when b is 0
Quotient(a, b, k, x) ==
    IF b = 0 THEN x.kind \in {"inf", "nan"} ELSE x = Ratio(k * a, b)

\* C13: on matched rows whose total population or School_Count is 0 the
\* derivations raise nothing and keep every row: calculate_completion_metrics
\* has one row per matched row and the per-capita derivation one row per
\* metrics row; a rate or ratio whose denominator is 0 is infinite or not a
\* number, and every other one is the quotient of its own row's counts.
C13_ZeroDenominatorUnguarded ==
    /\ pc \in {"metrics", "per_capita"} =>
          /\ raised = "none"
          /\ Len(metrics_df) = Cardinality(BothRows)
          /\ \A i \in DOMAIN metrics_df :
                Quotient(metrics_df[i].Left_After_Completion.val,
                         metrics_df[i].Total.val, 100, metrics_df[i].Completed_Rate)
    /\ pc = "per_capita" =>
          /\ Len(per_capita_df) = Len(metrics_df)
          /\ \A i \in DOMAIN per_capita_df :
                LET m == metrics_df[i]
                    p == per_capita_df[i]
                IN  /\ p.Division = m.Division
                    /\ Quotient(m.School_Count.val, m.Total.val, 10000,
                                p.Schools_per_10k)
                    /\ Quotient(m.Total_Enrollment.val, m.School_Count.val, 1,
                                p.Students_per_School)
                    /\ Quotient(m.Left_After_Completion.val, m.Total.val, 100,
                                p.Completed_Rate)

\* C13's case: a matched row with population 0 and School_Count 0 beside a
\* matched row whose metrics are all defined
C13_Witness ==
    /\ pc = "per_capita"
    /\ \E i \in DOMAIN per_capita_df :
          /\ metrics_df[i].Total = Num(0)
          /\ metrics_df[i].School_Count = Num(0)
          /\ metrics_df[i].Completed_Rate = Inf
          /\ per_capita_df[i].Schools_per_10k = NaN
          /\ per_capita_df[i].Students_per_School = Inf
    /\ \E j \in DOMAIN per_capita_df :
          /\ per_capita_df[j].Schools_per_10k = Ratio(10000, 800)
          /\ per_capita_df[j].Students_per_School = Ratio(200, 1)
          /\ per_capita_df[j].Completed_Rate = Ratio(30000, 800)

====
